---- MODULE Spec2Model ----
(***************************************************************************)
(* A model of map-players.py: the name normaliser, the multi-key lookup    *)
(* index, the three-tier match cascade (exact, containment, fuzzy), the    *)
(* reconciliation loop and the propagation of photo codes into the UI      *)
(* dataset.                                                                *)
(*                                                                         *)
(* A string is a sequence of characters; a character is a token: a one     *)
(* character string for ASCII, a named token for the few non-ASCII         *)
(* characters the model needs ("E_ACUTE", "COMB_ACUTE", "TM_SIGN", "TAB"). *)
(***************************************************************************)
EXTENDS Integers, Sequences, FiniteSets, TLC

VARIABLES
    pc,             \* position of the script
    local_players,  \* the in-memory local collection (line 37)
    fpl_elements,   \* the fetched external records (line 44)
    fpl_lookup,     \* the ordered dict name -> code (line 47)
    matches,        \* line 57
    fuzzy_matches,  \* line 58
    via,            \* history: the tier that decided each processed player
    core_file,      \* history: the local dataset as it was read from disk
    core_written,   \* the local dataset file was written (line 90)
    ui_players,     \* the in-memory derived collection (line 96)
    ui_file,        \* history: the derived dataset as it was read from disk
    ui_written,     \* the derived dataset file was written (line 106)
    ui_at,          \* number of derived records the sync loop has processed
    fpl_at,         \* number of external records the index loop has processed
    synced,         \* line 99
    name_in,        \* argument of a normalize call under test
    name_out        \* its result

vars == <<pc, local_players, fpl_elements, fpl_lookup, matches, fuzzy_matches,
          via, core_file, core_written, ui_players, ui_file, ui_written,
          ui_at, fpl_at, synced, name_in, name_out>>

----------------------------------------------------------------------------
(* Characters *)

UpperLetters == <<"A","B","C","D","E","F","G","H","I","J","K","L","M",
                  "N","O","P","Q","R","S","T","U","V","W","X","Y","Z">>
LowerLetters == <<"a","b","c","d","e","f","g","h","i","j","k","l","m",
                  "n","o","p","q","r","s","t","u","v","w","x","y","z">>
Digits == {"0","1","2","3","4","5","6","7","8","9"}

Range(s) == {s[i] : i \in 1..Len(s)}

UpperSet == Range(UpperLetters)
LowerSet == Range(LowerLetters)
\* the lowercase letter of every uppercase letter
LowerOf == [c \in UpperSet |-> LowerLetters[CHOOSE i \in 1..26 : UpperLetters[i] = c]]

\* str.lower() on one character.  TM_SIGN (U+2122) has no lowercase mapping.
Lower(c) ==
    IF c \in UpperSet THEN LowerOf[c]
    ELSE IF c = "E_ACUTE_CAP" THEN "E_ACUTE" ELSE c

\* unicodedata.normalize('NFKD', c) of one character.
NFKD(c) ==
    CASE c = "E_ACUTE"     -> <<"e", "COMB_ACUTE">>
      [] c = "E_ACUTE_CAP" -> <<"E", "COMB_ACUTE">>
      [] c = "TM_SIGN"     -> <<"T", "M">>
      [] OTHER             -> <<c>>

\* unicodedata.combining(c) != 0
IsCombining(c) == c = "COMB_ACUTE"

\* the regular expression class \w
IsWord(c) ==
    \/ c \in LowerSet
    \/ c \in UpperSet
    \/ c \in Digits
    \/ c = "_"
    \/ c \in {"E_ACUTE", "E_ACUTE_CAP"}

\* the regular expression class \s
IsSpace(c) == c \in {" ", "TAB"}

----------------------------------------------------------------------------
(* normalize, lines 7-16 *)

\* A local variable: the value x, computed once, given to F.
With(x, F(_)) == CHOOSE v \in {F(y) : y \in {x}} : TRUE

RECURSIVE FlatMap(_, _)
FlatMap(F(_), s) == IF s = <<>> THEN <<>> ELSE F(Head(s)) \o FlatMap(F, Tail(s))

\* line 11: .lower().replace('-', ' ')
LowerHyphen(c) == IF c = "-" THEN <<" ">> ELSE <<Lower(c)>>
\* line 13
DropCombining(c) == IF IsCombining(c) THEN <<>> ELSE <<c>>
\* line 14: re.sub(r'[^\w\s]', '', name)
KeepWordSpace(c) == IF IsWord(c) \/ IsSpace(c) THEN <<c>> ELSE <<>>

\* line 15: re.sub(r'\s+', ' ', s)
RECURSIVE CollapseSpace(_)
CollapseSpace(s) ==
    IF s = <<>> THEN <<>>
    ELSE IF IsSpace(Head(s))
         THEN IF Len(s) > 1 /\ IsSpace(s[2])
              THEN CollapseSpace(Tail(s))
              ELSE <<" ">> \o CollapseSpace(Tail(s))
         ELSE <<Head(s)>> \o CollapseSpace(Tail(s))

\* line 15: str.strip()
RECURSIVE LStrip(_)
LStrip(s) == IF s # <<>> /\ IsSpace(Head(s)) THEN LStrip(Tail(s)) ELSE s
RECURSIVE RStripTo(_, _)
RStripTo(s, n) == IF n > 0 /\ IsSpace(s[n]) THEN RStripTo(s, n - 1) ELSE SubSeq(s, 1, n)
Strip(s) == With(LStrip(s), LAMBDA l : RStripTo(l, Len(l)))

normalize(name) ==
    With(name, LAMBDA raw :
      IF raw = <<>> THEN <<>>
      ELSE With(FlatMap(LowerHyphen, raw), LAMBDA s11 :
           With(FlatMap(NFKD, s11), LAMBDA s12 :
           With(FlatMap(DropCombining, s12), LAMBDA s13 :
           With(FlatMap(KeepWordSpace, s13), LAMBDA s14 :
           With(CollapseSpace(s14), LAMBDA s15 : Strip(s15)))))))

----------------------------------------------------------------------------
(* similarity, lines 19-20: difflib.SequenceMatcher(None, a, b).ratio()     *)
(* Positions are 0-based and ranges half-open, as in difflib.  The autojunk *)
(* heuristic only acts on a second string of 200 or more characters.        *)

Min(x, y) == IF x <= y THEN x ELSE y

\* a[i : i+k] == b[j : j+k]
MatchAt(a, b, i, j, k) == \A t \in 1..k : a[i + t] = b[j + t]

\* a block of size k common to a[alo:ahi] and b[blo:bhi] starts at i in a
BlockAt(a, b, i, k, blo, bhi) ==
    \E j \in blo..(bhi - k) : MatchAt(a, b, i, j, k)
HasBlock(a, b, k, alo, ahi, blo, bhi) ==
    \E i \in alo..(ahi - k) : BlockAt(a, b, i, k, blo, bhi)

\* the size of the longest common block, searched from k down
RECURSIVE LongestSize(_, _, _, _, _, _, _)
LongestSize(a, b, k, alo, ahi, blo, bhi) ==
    IF k = 0 \/ HasBlock(a, b, k, alo, ahi, blo, bhi) THEN k
    ELSE LongestSize(a, b, k - 1, alo, ahi, blo, bhi)

\* the first start in a, from i up, of a common block of size k
RECURSIVE FirstInA(_, _, _, _, _, _)
FirstInA(a, b, i, k, blo, bhi) ==
    IF BlockAt(a, b, i, k, blo, bhi) THEN i ELSE FirstInA(a, b, i + 1, k, blo, bhi)
\* the first start in b, from j up, of the block of size k starting at i in a
RECURSIVE FirstInB(_, _, _, _, _)
FirstInB(a, b, i, j, k) ==
    IF MatchAt(a, b, i, j, k) THEN j ELSE FirstInB(a, b, i, j + 1, k)

\* SequenceMatcher.find_longest_match: the longest block common to
\* a[alo:ahi] and b[blo:bhi]; of the longest ones the one starting earliest
\* in a, and of those the one starting earliest in b.
find_longest_match(a, b, alo, ahi, blo, bhi) ==
    With(LongestSize(a, b, Min(ahi - alo, bhi - blo), alo, ahi, blo, bhi), LAMBDA k :
      IF k = 0 THEN <<alo, blo, 0>>
      ELSE With(FirstInA(a, b, alo, k, blo, bhi), LAMBDA i :
             <<i, FirstInB(a, b, i, blo, k), k>>))

\* SequenceMatcher.get_matching_blocks, summed: the total size of the blocks
\* found by splitting around the longest match, left and right.
RECURSIVE matching_size(_, _, _, _, _, _)
matching_size(a, b, alo, ahi, blo, bhi) ==
    With(find_longest_match(a, b, alo, ahi, blo, bhi), LAMBDA m :
      IF m[3] = 0 THEN 0
      ELSE m[3] + (IF alo < m[1] /\ blo < m[2]
                   THEN matching_size(a, b, alo, m[1], blo, m[2]) ELSE 0)
                + (IF m[1] + m[3] < ahi /\ m[2] + m[3] < bhi
                   THEN matching_size(a, b, m[1] + m[3], ahi, m[2] + m[3], bhi) ELSE 0))

\* A score is the fraction <<numerator, denominator>>; 0.0 is <<0, 1>>.
\* ratio() is 2.0 * matches / (len(a) + len(b)), one correctly rounded
\* division, so comparing the fractions compares the floats.
similarity(a, b) ==
    With(a, LAMBDA x : With(b, LAMBDA y :
      IF x # <<>> /\ y # <<>>
      THEN <<2 * matching_size(x, y, 0, Len(x), 0, Len(y)), Len(x) + Len(y)>>
      ELSE <<0, 1>>))

ScoreGT(s, t) == s[1] * t[2] > t[1] * s[2]
ScoreGE(s, t) == s[1] * t[2] >= t[1] * s[2]

\* min_score = 0.86 (lines 23 and 81) as the fraction 86 / 100
MinScoreNum == 86
MinScoreDen == 100
min_score == <<MinScoreNum, MinScoreDen>>

\* None
NoCode == 0

----------------------------------------------------------------------------
(* The dict fpl_lookup: a sequence of <<key, value>> in insertion order.    *)

HasKey(d, k) == \E i \in 1..Len(d) : d[i][1] = k
\* d[k]
Get(d, k) == d[CHOOSE i \in 1..Len(d) : d[i][1] = k][2]
\* Put with a bug: an existing key keeps its first value (dict.setdefault)
PutKeepFirst(dict, key, v) ==
    IF \E i \in 1..Len(dict) : dict[i][1] = key THEN dict ELSE Append(dict, <<key, v>>)

\* d[k] = v: an existing key keeps its position and takes the new value
Put(dict, key, v) ==
    With(dict, LAMBDA d : With(key, LAMBDA k :
      IF HasKey(d, k)
      THEN [i \in 1..Len(d) |-> IF d[i][1] = k THEN <<k, v>> ELSE d[i]]
      ELSE Append(d, <<k, v>>)))

\* IsSubstr with a bug: the empty string is found in no string
IsSubstrNonEmpty(x, y) ==
    x # <<>> /\ \E i \in 0..(Len(y) - Len(x)) : SubSeq(y, i + 1, i + Len(x)) = x

\* x in y, for strings
IsSubstr(x, y) ==
    \E i \in 0..(Len(y) - Len(x)) : SubSeq(y, i + 1, i + Len(x)) = x

----------------------------------------------------------------------------
(* best_fuzzy_match, lines 23-32 *)

\* BestOf with a bug: score >= best_score, so the last maximum is kept
RECURSIVE BestOfLastMax(_, _, _)
BestOfLastMax(local_name, candidates, n) ==
    IF n = 0 THEN <<NoCode, <<0, 1>>>>
    ELSE With(BestOfLastMax(local_name, candidates, n - 1), LAMBDA best :
         With(similarity(local_name, candidates[n][1]), LAMBDA score :
           IF ScoreGE(score, best[2]) THEN <<candidates[n][2], score>> ELSE best))

\* lines 25-29: best_code, best_score after the first n candidates
RECURSIVE BestOf(_, _, _)
BestOf(local_name, candidates, n) ==
    IF n = 0 THEN <<NoCode, <<0, 1>>>>
    ELSE With(BestOf(local_name, candidates, n - 1), LAMBDA best :
         With(similarity(local_name, candidates[n][1]), LAMBDA score :
           IF ScoreGT(score, best[2]) THEN <<candidates[n][2], score>> ELSE best))

\* lines 30-32
best_fuzzy_match(local_name, candidates) ==
    With(BestOf(local_name, candidates, Len(candidates)), LAMBDA best :
      IF ScoreGE(best[2], min_score) THEN best ELSE <<NoCode, best[2]>>)

----------------------------------------------------------------------------
(* The inputs: names, and the records of the three datasets *)

MaxPlayers == 2     \* local players in the local dataset
MaxRecords == 2     \* external records in the fetched dataset
MaxDerived == 1     \* records in the derived (UI) dataset
MaxRawLen == 3      \* characters of a raw string given to normalize alone
MaxKeyLen == 2      \* characters of a short external name
MaxNameLen == 2     \* characters of a short local name

SeqsUpTo(S, n) == UNION {[1..k -> S] : k \in 0..n}

sMo      == <<"M","o">>
sMohamed == <<"M","o","h","a","m","e","d">>
sSalah   == <<"S","a","l","a","h">>
sSallah  == <<"S","a","l","l","a","h">>
sSallh   == <<"S","a","l","l","h">>
sMoSalah == <<"M","o"," ","S","a","l","a","h">>
sSon     == <<"S","o","n">>
sHyphen  == <<"-">>
sVariantA == <<"1", "-", "v", "a", "r", "i", "a", "n", "t", "A">>

\* player['name'] of a local player (line 60)
LocalNames == {sMoSalah, sSallah}
\* the photoCode a local or derived record carries when it is loaded: absent
\* (None), or one written by an earlier run
LoadedPhotoCodes == {NoCode, 7}
\* the same, for the local datasets the propagation is studied on
SyncPhotoCodes == {NoCode, 101, 102}
\* p['first_name'], p['second_name'], p['web_name'] of a fetched record
\* (lines 49-55)
FplNames == {<<sMohamed, sSalah, sSalah>>,
             <<sMo, sSalah, sSalah>>,
             <<sMohamed, sSallh, sSallh>>,
             <<sMo, sSon, sMo>>}
\* p['code'] of the i-th fetched record: 101, 102, ...
CodeOf(i) == 100 + i
\* p['id'] of the i-th local player: the ids of the local dataset are unique
IdOf(i) == <<(<<"1", "2", "3", "4">>)[i]>>

LocalDatasetsOf(names, codes, n) ==
    {[i \in 1..Len(q) |-> [id |-> IdOf(i), name |-> q[i][1], photoCode |-> q[i][2]]] :
        q \in SeqsUpTo(names \X codes, n)}
FplDatasetsOf(triples, n) ==
    {[i \in 1..Len(q) |-> [code |-> CodeOf(i), first_name |-> q[i][1],
                           second_name |-> q[i][2], web_name |-> q[i][3]]] :
        q \in SeqsUpTo(triples, n)}

\* the local dataset file
LocalDatasets == LocalDatasetsOf(LocalNames, LoadedPhotoCodes, MaxPlayers)
\* the fetched dataset
FplDatasets == FplDatasetsOf(FplNames, MaxRecords)
\* the derived dataset file; an absent, null or empty field is <<>>
UiDatasets ==
    SeqsUpTo([basePlayerId : {<<>>, sVariantA, <<"2">>},
              id : {<<>>, <<"1">>},
              photoCode : LoadedPhotoCodes], MaxDerived)
\* the derived datasets of the whole-run specification: variants of player "1"
\* that carry no photo code yet
UiDatasetsRun ==
    {d \in UiDatasets : \A i \in 1..Len(d) :
        d[i].basePlayerId = sVariantA /\ d[i].id = <<>> /\ d[i].photoCode = NoCode}

\* short names over a two-letter alphabet
ShortKeys == SeqsUpTo({"a", "b"}, MaxKeyLen)
ShortNames == SeqsUpTo({"a", "b"}, MaxNameLen) \cup {sHyphen}
\* raw strings for normalize
NormAlphabet == {"a", "A", "1", "-", " ", "TAB", ".", "_", "E_ACUTE", "TM_SIGN"}
RawStrings == SeqsUpTo(NormAlphabet, MaxRawLen)

----------------
(* Lines 46-55: the lookup index *)

\* f"{p['first_name']} {p['second_name']}"
FullName(p) == p.first_name \o <<" ">> \o p.second_name

\* lines 49-55, one iteration of the loop
IndexRecord(d, p) ==
    With(normalize(FullName(p)), LAMBDA full :
    With(normalize(p.web_name), LAMBDA web :
    With(Put(d, full, p.code), LAMBDA d51 :
    With(Put(d51, web, p.code), LAMBDA d52 :
      Put(d52, normalize(p.second_name), p.code)))))

\* lines 47-55: the index of the first n records
RECURSIVE BuildIndex(_, _)
BuildIndex(elements, n) ==
    IF n = 0 THEN <<>> ELSE IndexRecord(BuildIndex(elements, n - 1), elements[n])

----------------------------------------------------------------------------
(* Lines 59-85: the cascade for one local name *)

\* Contains with a bug: only local_name in fpl_name is tested
ContainsOneWay(fpl_name, local_name) ==
    fpl_name # <<>> /\ IsSubstr(local_name, fpl_name)

\* line 72
Contains(fpl_name, local_name) ==
    fpl_name # <<>> /\ (IsSubstr(fpl_name, local_name) \/ IsSubstr(local_name, fpl_name))

\* lines 70-74: the code of the first key, from position n on in dict order,
\* that is non-empty and contains or is contained in local_name
RECURSIVE ContainmentFrom(_, _, _)
ContainmentFrom(local_name, d, n) ==
    IF n > Len(d) THEN NoCode
    ELSE IF Contains(d[n][1], local_name) THEN d[n][2]
         ELSE ContainmentFrom(local_name, d, n + 1)
\* ContainmentHit with a bug: no break, so the last matching key wins
RECURSIVE ContainmentUpTo(_, _, _)
ContainmentUpTo(local_name, d, n) ==
    IF n = 0 THEN NoCode
    ELSE IF Contains(d[n][1], local_name) THEN d[n][2]
         ELSE ContainmentUpTo(local_name, d, n - 1)
ContainmentHitLast(local_name, d) == ContainmentUpTo(local_name, d, Len(d))

ContainmentHit(local_name, d) == ContainmentFrom(local_name, d, 1)

\* Resolve with a bug: the containment tier is tried before the exact one
ResolveContainmentFirst(local_name, d) ==
    With(ContainmentHit(local_name, d), LAMBDA hit :
      IF hit # NoCode THEN <<hit, "containment">>
      ELSE IF HasKey(d, local_name) THEN <<Get(d, local_name), "exact">>
           ELSE With(best_fuzzy_match(local_name, d)[1], LAMBDA code :
                  IF code # NoCode THEN <<code, "fuzzy">> ELSE <<NoCode, "none">>))

\* lines 64-85: the code assigned and the tier that assigned it
Resolve(local_name, d) ==
    IF HasKey(d, local_name) THEN <<Get(d, local_name), "exact">>
    ELSE With(ContainmentHit(local_name, d), LAMBDA hit :
           IF hit # NoCode THEN <<hit, "containment">>
           ELSE With(best_fuzzy_match(local_name, d)[1], LAMBDA code :
                  IF code # NoCode THEN <<code, "fuzzy">> ELSE <<NoCode, "none">>))

\* SetPhoto with a bug: player['photoCode'] is assigned the result, match or not
SetPhotoAlways(players, n, r) == [players EXCEPT ![n].photoCode = r[1]]

\* lines 65, 76, 83: player['photoCode'] is assigned only on a match
SetPhoto(players, n, r) ==
    IF r[2] = "none" THEN players ELSE [players EXCEPT ![n].photoCode = r[1]]

----------------------------------------------------------------------------
(* Lines 98-104: propagation *)

\* line 98: {p['id']: p.get('photoCode') for p in local_players if p.get('photoCode')},
\* over the first n players
RECURSIVE CoreMap(_, _)
CoreMap(players, n) ==
    IF n = 0 THEN <<>>
    ELSE With(CoreMap(players, n - 1), LAMBDA rest :
           IF players[n].photoCode # NoCode
           THEN Put(rest, players[n].id, players[n].photoCode) ELSE rest)
core_map == CoreMap(local_players, Len(local_players))

\* BeforeHyphen with a bug: the identifier is not split
WholeId(s) == s

\* s.split('-')[0]
RECURSIVE BeforeHyphen(_)
BeforeHyphen(s) ==
    IF s = <<>> \/ Head(s) = "-" THEN <<>> ELSE <<Head(s)>> \o BeforeHyphen(Tail(s))

\* line 101: str(p.get('basePlayerId') or p.get('id') or '').split('-')[0]
BaseId(p) ==
    BeforeHyphen(IF p.basePlayerId # <<>> THEN p.basePlayerId ELSE p.id)

----------------------------------------------------------------------------
(* The script, top to bottom *)

Init ==
    /\ pc = "load"
    /\ local_players = <<>>
    /\ fpl_elements = <<>>
    /\ fpl_lookup = <<>>
    /\ fpl_at = 0
    /\ matches = 0
    /\ fuzzy_matches = 0
    /\ via = <<>>
    /\ core_file = <<>>
    /\ core_written = FALSE
    /\ ui_players = <<>>
    /\ ui_file = <<>>
    /\ ui_written = FALSE
    /\ ui_at = 0
    /\ synced = 0
    /\ name_in = <<>>
    /\ name_out = <<>>

\* lines 35-37
LoadLocal ==
    /\ pc = "load"
    /\ \E d \in LocalDatasets :
          /\ local_players' = d
          /\ core_file' = d
    /\ pc' = "fetch"
    /\ UNCHANGED <<fpl_elements, fpl_lookup, fpl_at, matches, fuzzy_matches, via,
                   core_written, ui_players, ui_file, ui_written, ui_at, synced,
                   name_in, name_out>>

\* lines 38-40: the file is missing or malformed
LoadFail ==
    /\ pc = "load"
    /\ pc' = "aborted"
    /\ UNCHANGED <<local_players, fpl_elements, fpl_lookup, fpl_at, matches,
                   fuzzy_matches, via, core_file, core_written, ui_players, ui_file,
                   ui_written, ui_at, synced, name_in, name_out>>

\* lines 42-47
Fetch ==
    /\ pc = "fetch"
    /\ fpl_elements' \in FplDatasets
    /\ fpl_lookup' = <<>>
    /\ fpl_at' = 0
    /\ pc' = "index"
    /\ UNCHANGED <<local_players, matches, fuzzy_matches, via, core_file,
                   core_written, ui_players, ui_file, ui_written, ui_at, synced,
                   name_in, name_out>>

\* line 43 or 44 raises: nothing catches it
FetchFail ==
    /\ pc = "fetch"
    /\ pc' = "aborted"
    /\ UNCHANGED <<local_players, fpl_elements, fpl_lookup, fpl_at, matches,
                   fuzzy_matches, via, core_file, core_written, ui_players, ui_file,
                   ui_written, ui_at, synced, name_in, name_out>>

\* lines 48-55, one record
IndexStep ==
    /\ pc = "index"
    /\ fpl_at < Len(fpl_elements)
    /\ fpl_lookup' = IndexRecord(fpl_lookup, fpl_elements[fpl_at + 1])
    /\ fpl_at' = fpl_at + 1
    /\ UNCHANGED <<pc, local_players, fpl_elements, matches, fuzzy_matches, via,
                   core_file, core_written, ui_players, ui_file, ui_written, ui_at,
                   synced, name_in, name_out>>

\* lines 57-58: the index loop is over
IndexDone ==
    /\ pc = "index"
    /\ fpl_at = Len(fpl_elements)
    /\ matches' = 0
    /\ fuzzy_matches' = 0
    /\ pc' = "reconcile"
    /\ UNCHANGED <<local_players, fpl_elements, fpl_lookup, fpl_at, via, core_file,
                   core_written, ui_players, ui_file, ui_written, ui_at, synced,
                   name_in, name_out>>

\* lines 59-85, one player
ReconcileStep ==
    /\ pc = "reconcile"
    /\ Len(via) < Len(local_players)
    /\ \E n \in {Len(via) + 1} :
       \E local_name \in {normalize(local_players[n].name)} :
       \E r \in {Resolve(local_name, fpl_lookup)} :
           /\ local_players' = SetPhoto(local_players, n, r)
           /\ matches' = IF r[2] = "none" THEN matches ELSE matches + 1
           /\ fuzzy_matches' = IF r[2] = "fuzzy" THEN fuzzy_matches + 1 ELSE fuzzy_matches
           /\ via' = Append(via, r[2])
    /\ UNCHANGED <<pc, fpl_elements, fpl_lookup, fpl_at, core_file, core_written,
                   ui_players, ui_file, ui_written, ui_at, synced, name_in, name_out>>

\* lines 87-88: the loop is over, the report is printed
ReconcileDone ==
    /\ pc = "reconcile"
    /\ Len(via) = Len(local_players)
    /\ pc' = "write"
    /\ UNCHANGED <<local_players, fpl_elements, fpl_lookup, fpl_at, matches,
                   fuzzy_matches, via, core_file, core_written, ui_players, ui_file,
                   ui_written, ui_at, synced, name_in, name_out>>

\* lines 90-91
WriteCore ==
    /\ pc = "write"
    /\ core_written' = TRUE
    /\ pc' = "ui_read"
    /\ UNCHANGED <<local_players, fpl_elements, fpl_lookup, fpl_at, matches,
                   fuzzy_matches, via, core_file, ui_players, ui_file, ui_written,
                   ui_at, synced, name_in, name_out>>

\* lines 95-99
UiRead(datasets) ==
    /\ pc = "ui_read"
    /\ \E d \in datasets :
          /\ ui_players' = d
          /\ ui_file' = d
    /\ synced' = 0
    /\ ui_at' = 0
    /\ pc' = "ui_sync"
    /\ UNCHANGED <<local_players, fpl_elements, fpl_lookup, fpl_at, matches,
                   fuzzy_matches, via, core_file, core_written, ui_written,
                   name_in, name_out>>

\* UiReadFail with a bug: no try/except, the failure ends the run
UiReadFailAborts ==
    /\ pc = "ui_read"
    /\ pc' = "aborted"
    /\ UNCHANGED <<local_players, fpl_elements, fpl_lookup, fpl_at, matches,
                   fuzzy_matches, via, core_file, core_written, ui_players, ui_file,
                   ui_written, ui_at, synced, name_in, name_out>>

\* lines 110-111: the derived dataset is missing or malformed
UiReadFail ==
    /\ pc = "ui_read"
    /\ pc' = "ui_skipped"
    /\ UNCHANGED <<local_players, fpl_elements, fpl_lookup, fpl_at, matches,
                   fuzzy_matches, via, core_file, core_written, ui_players, ui_file,
                   ui_written, ui_at, synced, name_in, name_out>>

\* lines 100-104, one derived record
UiSyncStep ==
    /\ pc = "ui_sync"
    /\ ui_at < Len(ui_players)
    /\ \E n \in {ui_at + 1} :
       \E base_id \in {BaseId(ui_players[n])} :
       \E cm \in {core_map} :
           IF HasKey(cm, base_id)
           THEN /\ ui_players' = [ui_players EXCEPT ![n].photoCode = Get(cm, base_id)]
                /\ synced' = synced + 1
           ELSE UNCHANGED <<ui_players, synced>>
    /\ ui_at' = ui_at + 1
    /\ UNCHANGED <<pc, local_players, fpl_elements, fpl_lookup, fpl_at, matches,
                   fuzzy_matches, via, core_file, core_written, ui_file, ui_written,
                   name_in, name_out>>

\* lines 106-109
UiWrite ==
    /\ pc = "ui_sync"
    /\ ui_at = Len(ui_players)
    /\ ui_written' = TRUE
    /\ pc' = "ui_synced"
    /\ UNCHANGED <<local_players, fpl_elements, fpl_lookup, fpl_at, matches,
                   fuzzy_matches, via, core_file, core_written, ui_players, ui_file,
                   ui_at, synced, name_in, name_out>>

\* line 113
Finish ==
    /\ pc \in {"ui_synced", "ui_skipped"}
    /\ pc' = "done"
    /\ UNCHANGED <<local_players, fpl_elements, fpl_lookup, fpl_at, matches,
                   fuzzy_matches, via, core_file, core_written, ui_players, ui_file,
                   ui_written, ui_at, synced, name_in, name_out>>

Next ==
    \/ LoadLocal
    \/ LoadFail
    \/ Fetch
    \/ FetchFail
    \/ IndexStep
    \/ IndexDone
    \/ ReconcileStep
    \/ ReconcileDone
    \/ WriteCore
    \/ UiRead(UiDatasetsRun)
    \/ UiReadFail
    \/ UiSyncStep
    \/ UiWrite
    \/ Finish

Spec == Init /\ [][Next]_vars

----------------------------------------------------------------------------
(* The propagation alone: the script after line 91 of a run whose local     *)
(* dataset carried photo codes of earlier runs and whose fetched dataset    *)
(* was empty, so that no player was matched.                                *)

InitSync ==
    /\ pc = "ui_read"
    /\ local_players \in LocalDatasetsOf({sSallah}, SyncPhotoCodes, MaxPlayers)
    /\ core_file = local_players
    /\ fpl_elements = <<>>
    /\ fpl_lookup = <<>>
    /\ fpl_at = 0
    /\ matches = 0
    /\ fuzzy_matches = 0
    /\ via = [i \in 1..Len(local_players) |-> "none"]
    /\ core_written = TRUE
    /\ ui_players = <<>>
    /\ ui_file = <<>>
    /\ ui_written = FALSE
    /\ ui_at = 0
    /\ synced = 0
    /\ name_in = <<>>
    /\ name_out = <<>>

NextSync ==
    \/ UiRead(UiDatasets)
    \/ UiReadFail
    \/ UiSyncStep
    \/ UiWrite
    \/ Finish

SpecSync == InitSync /\ [][NextSync]_vars

----------------------------------------------------------------------------
(* The cascade alone, over every short name: the script at line 59 of a     *)
(* run with one local player and fetched records whose first name is empty  *)
(* and whose web name is their second name.                                 *)

InitResolve ==
    /\ pc = "reconcile"
    /\ fpl_elements \in FplDatasetsOf({<<<<>>, k, k>> : k \in ShortKeys}, MaxRecords)
    /\ fpl_lookup = BuildIndex(fpl_elements, Len(fpl_elements))
    /\ fpl_at = Len(fpl_elements)
    /\ local_players \in {<<[id |-> IdOf(1), name |-> nm, photoCode |-> NoCode]>> :
                             nm \in ShortNames}
    /\ core_file = local_players
    /\ matches = 0
    /\ fuzzy_matches = 0
    /\ via = <<>>
    /\ core_written = FALSE
    /\ ui_players = <<>>
    /\ ui_file = <<>>
    /\ ui_written = FALSE
    /\ ui_at = 0
    /\ synced = 0
    /\ name_in = <<>>
    /\ name_out = <<>>

NextResolve ==
    \/ ReconcileStep
    \/ ReconcileDone

SpecResolve == InitResolve /\ [][NextResolve]_vars

----------------------------------------------------------------------------
(* normalize alone, over every short raw string *)

InitNorm ==
    /\ pc = "normalize"
    /\ name_in \in RawStrings
    /\ name_out = <<>>
    /\ local_players = <<>>
    /\ core_file = <<>>
    /\ fpl_elements = <<>>
    /\ fpl_lookup = <<>>
    /\ fpl_at = 0
    /\ matches = 0
    /\ fuzzy_matches = 0
    /\ via = <<>>
    /\ core_written = FALSE
    /\ ui_players = <<>>
    /\ ui_file = <<>>
    /\ ui_written = FALSE
    /\ ui_at = 0
    /\ synced = 0

\* a call of normalize, lines 7-16
NormalizeCall ==
    /\ pc = "normalize"
    /\ name_out' = normalize(name_in)
    /\ pc' = "normalized"
    /\ UNCHANGED <<local_players, fpl_elements, fpl_lookup, fpl_at, matches,
                   fuzzy_matches, via, core_file, core_written, ui_players, ui_file,
                   ui_written, ui_at, synced, name_in>>

NextNorm == NormalizeCall

SpecNorm == InitNorm /\ [][NextNorm]_vars

------------------------------------------------------------

----------------------------------------------------------------------------
(* Vocabulary of the properties *)

\* the reconciliation loop is running, or has just ended; local_players, via
\* and the counters are not assigned after it
Reconciling == pc \in {"reconcile", "write"}
\* the reconciliation loop is over
Reconciled == pc \in {"write", "ui_read", "ui_sync", "ui_synced", "ui_skipped", "done"}
\* the local players that have been through the reconciliation loop
Processed == 1..Len(via)
\* the normalized name of the n-th local player
LocalName(n) == normalize(core_file[n].name)
\* the external records the index loop has been through
Indexed == 1..fpl_at
\* the three index keys built for an external record
KeysOfRecord(p) ==
    {normalize(FullName(p)), normalize(p.web_name), normalize(p.second_name)}
\* the keys of every indexed record
RecordKeys == [r \in Indexed |-> KeysOfRecord(fpl_elements[r])]
\* the least and the greatest element of a non-empty set of numbers
Least(S) == CHOOSE x \in S : \A y \in S : x <= y
Greatest(S) == CHOOSE x \in S : \A y \in S : x >= y
\* key k is non-empty and contains, or is contained in, the name
CanContain(k, name) ==
    /\ k # <<>>
    /\ \/ \E i \in 0..(Len(name) - Len(k)) : SubSeq(name, i + 1, i + Len(k)) = k
       \/ \E i \in 0..(Len(k) - Len(name)) : SubSeq(k, i + 1, i + Len(name)) = name
\* the positions of the index whose key can contain the name
Containing(name) == {i \in 1..Len(fpl_lookup) : CanContain(fpl_lookup[i][1], name)}
\* the keys of the index
LookupKeys == {fpl_lookup[i][1] : i \in 1..Len(fpl_lookup)}
\* the number of processed players decided by one of the given tiers
CountVia(tiers) == Cardinality({n \in Processed : via[n] \in tiers})

\* C1 as stated: a local name that equals an index key built for a record R
\* is given R's identifier by the exact tier -- for every such record R.
C1_AsStated ==
    Reconciling =>
      LET rk == RecordKeys
      IN  \A n \in Processed :
            LET name == LocalName(n)
            IN  \A r \in Indexed :
                  name \in rk[r] =>
                    /\ via[n] = "exact"
                    /\ local_players[n].photoCode = fpl_elements[r].code

\* C1 amended: a local name that equals an index key built for some record
\* is decided by the exact tier, is given the identifier of the last record in
\* input order that produces that key, and is not counted as fuzzy, whatever
\* the containment or fuzzy tier would have chosen.
C1_ExactTierPrecedence ==
    Reconciling =>
      /\ \A rk \in {RecordKeys} : \A n \in Processed : \A name \in {LocalName(n)} :
           \A producers \in {{r \in Indexed : name \in rk[r]}} :
             producers # {} =>
               /\ via[n] = "exact"
               /\ local_players[n].photoCode = fpl_elements[Greatest(producers)].code
      /\ fuzzy_matches = CountVia({"fuzzy"})

\* C1 witness: a player decided by the exact tier whose name an earlier key
\* with another identifier can contain, so that the containment tier would
\* have given that other identifier.
C1_Witness ==
    /\ pc = "write"
    /\ \E n \in Processed :
         /\ via[n] = "exact"
         /\ Containing(LocalName(n)) # {}
         /\ fpl_lookup[Least(Containing(LocalName(n)))][2] # local_players[n].photoCode

\* C2: a local name that is no index key, and that some non-empty key
\* contains or is contained in, is given the identifier of the first such key
\* in the stored order, by the containment tier and not by the fuzzy one.
C2_ContainmentFirstKey ==
    Reconciling =>
      \A n \in Processed :
        LET name == LocalName(n)
            hits == Containing(name)
        IN  (name \notin LookupKeys /\ hits # {}) =>
              /\ via[n] = "containment"
              /\ local_players[n].photoCode = fpl_lookup[Least(hits)][2]
              /\ fuzzy_matches = 0

\* C2 witness: a player decided by the containment tier while a later key,
\* longer than the first and with another identifier, satisfies containment
\* too.
C2_Witness ==
    /\ pc = "write"
    /\ \E n \in Processed :
         /\ via[n] = "containment"
         /\ \E j \in Containing(LocalName(n)) :
              /\ Least(Containing(LocalName(n))) < j
              /\ Len(fpl_lookup[j][1]) > Len(fpl_lookup[Least(Containing(LocalName(n)))][1])
              /\ fpl_lookup[j][2] # local_players[n].photoCode

\* the similarity of the name to every key of the index, in iteration order
ScoresOf(name) == [i \in 1..Len(fpl_lookup) |-> similarity(name, fpl_lookup[i][1])]
\* the positions that attain the maximum of the scores
MaxPositions(sc) ==
    {i \in DOMAIN sc : \A j \in DOMAIN sc : sc[i][1] * sc[j][2] >= sc[j][1] * sc[i][2]}
\* a score is at least 0.86
Accepted(score) == 100 * score[1] >= 86 * score[2]

ExampleRun ==
    /\ Reconciled
    /\ core_file = <<[id |-> <<"1">>, name |-> sMoSalah, photoCode |-> NoCode]>>
    /\ fpl_elements = <<[code |-> 101, first_name |-> sMohamed,
                         second_name |-> sSalah, web_name |-> sSalah]>>

\* C4 as stated: in the example player "1" gets photoCode 101 by the exact
\* tier, with matched = 1 and fuzzyMatched = 0.
C4_AsStated ==
    ExampleRun =>
      /\ local_players[1].photoCode = 101
      /\ via[1] = "exact"
      /\ matches = 1
      /\ fuzzy_matches = 0

\* C4 amended: in the example player "1" gets photoCode 101 by the
\* containment tier (the web-name key "salah" is a substring of "mo salah",
\* which is no index key), with matched = 1 and fuzzyMatched = 0.
C4_EndToEnd ==
    ExampleRun =>
      /\ local_players[1].photoCode = 101
      /\ via[1] = "containment"
      /\ LocalName(1) \notin LookupKeys
      /\ fpl_lookup[Least(Containing(LocalName(1)))][1] = normalize(fpl_elements[1].web_name)
      /\ matches = 1
      /\ fuzzy_matches = 0

\* C4 witness: the example has run to the end.
C4_Witness == ExampleRun /\ pc = "done" /\ local_players[1].photoCode = 101

\* the number of local players that carry a photoCode
Carrying == Cardinality({n \in 1..Len(local_players) : local_players[n].photoCode # NoCode})

\* C5 as stated: a player no tier matches has no photoCode after
\* reconciliation and is not counted, and the matched count is the number of
\* players that carry a photoCode.
C5_AsStated ==
    /\ \A n \in Processed : via[n] = "none" => local_players[n].photoCode = NoCode
    /\ matches = CountVia({"exact", "containment", "fuzzy"})
    /\ Reconciled => matches = Carrying

\* C5 amended: a player no tier matches keeps the photoCode it was loaded
\* with (none, if it was loaded with none) and is not counted; the matched
\* count is the number of players a tier matched, and it is the number of
\* players that carry a photoCode when every unmatched player was loaded
\* without one.
C5_UnmatchedUnchanged ==
    /\ \A n \in Processed : via[n] = "none" => local_players[n] = core_file[n]
    /\ matches = CountVia({"exact", "containment", "fuzzy"})
    /\ (Reconciled /\ \A n \in Processed : via[n] = "none" => core_file[n].photoCode = NoCode)
          => matches = Carrying

\* C5 witness: reconciliation is over and left unmatched a player that was
\* loaded with a photoCode, beside a matched one.
C5_Witness ==
    /\ Reconciled
    /\ \E n \in Processed : via[n] = "none" /\ core_file[n].photoCode # NoCode
    /\ matches > 0

\* the base identifier of a derived record: its basePlayerId if it has one,
\* else its id, cut at the first '-'
BaseOf(p) ==
    LET s == IF p.basePlayerId # <<>> THEN p.basePlayerId ELSE p.id
        hyphens == {i \in 1..Len(s) : s[i] = "-"}
    IN  IF hyphens = {} THEN s ELSE SubSeq(s, 1, Least(hyphens) - 1)
\* the local players that have a photoCode and the given identifier
Owners(b) ==
    {n \in 1..Len(local_players) :
        local_players[n].photoCode # NoCode /\ local_players[n].id = b}
\* the derived records the propagation loop has been through
Propagated == 1..ui_at

\* C6: the mapping holds id -> photoCode of exactly the local players that
\* have a photoCode; a derived record whose base identifier is a key of the
\* mapping gets the mapped photoCode and is counted in synced, and any other
\* derived record is left as it was read.
C6_PropagationJoin ==
    pc \in {"ui_sync", "ui_synced", "done"} =>
      /\ \A n \in 1..Len(local_players) :
           IF local_players[n].photoCode # NoCode
           THEN \E i \in 1..Len(core_map) :
                   core_map[i] = <<local_players[n].id, local_players[n].photoCode>>
           ELSE \A i \in 1..Len(core_map) : core_map[i][1] # local_players[n].id
      /\ Len(ui_players) = Len(ui_file)
      /\ \A m \in 1..Len(ui_file) :
           LET owners == Owners(BaseOf(ui_file[m]))
           IN  IF m \in Propagated /\ owners # {}
               THEN \A n \in owners :
                      ui_players[m] = [ui_file[m] EXCEPT !.photoCode = local_players[n].photoCode]
               ELSE ui_players[m] = ui_file[m]
      /\ synced = Cardinality({m \in Propagated : Owners(BaseOf(ui_file[m])) # {}})

\* C6 witness: the example of the propagation -- local player "1" with
\* photoCode 101, a derived record with basePlayerId "1-variantA" that now
\* carries 101 -- beside a second local player with another photoCode.
C6_Witness ==
    /\ pc = "ui_synced"
    /\ Len(local_players) = 2
    /\ local_players[1].id = <<"1">>
    /\ local_players[1].photoCode = 101
    /\ local_players[2].photoCode = 102
    /\ \E m \in Propagated :
         /\ ui_file[m] = [basePlayerId |-> sVariantA, id |-> <<>>, photoCode |-> NoCode]
         /\ ui_players[m].photoCode = 101
    /\ synced = 1

\* C7: a failed load or fetch ends the run with neither file written; after
\* both succeed the local dataset is written before the propagation is
\* attempted, whether or not the derived dataset can be read; when it cannot,
\* the derived file is not written and the completion notice is still to come.
C7_RunOrdering ==
    /\ pc = "aborted" => ~core_written /\ ~ui_written
    /\ pc \in {"load", "fetch", "index", "reconcile", "write"} => ~core_written /\ ~ui_written
    /\ pc \in {"ui_read", "ui_sync", "ui_synced", "ui_skipped", "done"} => core_written
    /\ pc \in {"ui_read", "ui_sync", "ui_skipped"} => ~ui_written
    /\ pc = "ui_skipped" => ENABLED Finish
    /\ ui_written => pc \in {"ui_synced", "done"}

\* C7 witness: a run whose derived dataset could not be read has reached its
\* completion notice with the local dataset written and the derived one not.
C7_Witness == pc = "done" /\ core_written /\ ~ui_written /\ Len(local_players) > 0

\* lowercase letters, digits
LowerAlnum == Range(LowerLetters) \cup Digits

\* C8 as stated: the output of normalize holds only lowercase letters, digits
\* and single spaces, with no space at either end, and normalize leaves it
\* unchanged.
C8_AsStated ==
    pc = "normalized" =>
      /\ \A i \in 1..Len(name_out) : name_out[i] \in LowerAlnum \cup {" "}
      /\ \A i \in 1..(Len(name_out) - 1) : ~(name_out[i] = " " /\ name_out[i + 1] = " ")
      /\ name_out # <<>> => name_out[1] # " " /\ name_out[Len(name_out)] # " "
      /\ normalize(name_out) = name_out

\* C8 witness: normalize has returned a string with an uppercase letter.
C8_Witness == pc = "normalized" /\ \E i \in 1..Len(name_out) : name_out[i] \in Range(UpperLetters)

\* the keys of the indexed records in the order they are produced: record by
\* record, and in a record full name, display name, surname
ProducedKey(i) ==
    LET p == fpl_elements[((i - 1) \div 3) + 1]
    IN  CASE (i - 1) % 3 = 0 -> normalize(FullName(p))
          [] (i - 1) % 3 = 1 -> normalize(p.web_name)
          [] OTHER           -> normalize(p.second_name)
Produced == [i \in 1..(3 * fpl_at) |-> ProducedKey(i)]
\* a sequence without its repetitions, first occurrences kept
RECURSIVE Distinct(_, _)
Distinct(s, n) ==
    IF n = 0 THEN <<>>
    ELSE LET prev == Distinct(s, n - 1)
         IN  IF s[n] \in Range(prev) THEN prev ELSE Append(prev, s[n])

\* C9: the keys of the index are exactly the normalized full names, display
\* names and surnames of the records, each maps to the identifier of the
\* last record in input order that produces it, and the keys are stored in
\* the order they are first produced.
C9_IndexConstruction ==
    pc = "index" =>
      \A produced \in {Produced} :
        /\ LookupKeys = Range(produced)
        /\ [i \in 1..Len(fpl_lookup) |-> fpl_lookup[i][1]] = Distinct(produced, Len(produced))
        /\ \A i \in 1..Len(fpl_lookup) :
             fpl_lookup[i][2] =
               fpl_elements[((Greatest({j \in 1..Len(produced) : produced[j] = fpl_lookup[i][1]}) - 1) \div 3) + 1].code

\* C9 witness: the index loop has been through every record and two records
\* with different identifiers produced one of the keys.
C9_Witness ==
    /\ pc = "index"
    /\ fpl_at = Len(fpl_elements)
    /\ \E r \in Indexed, q \in Indexed, i \in 1..Len(fpl_lookup) :
         /\ r < q
         /\ fpl_lookup[i][1] \in KeysOfRecord(fpl_elements[r]) \cap KeysOfRecord(fpl_elements[q])
         /\ fpl_lookup[i][2] = fpl_elements[q].code
         /\ fpl_elements[q].code # fpl_elements[r].code

\* C10: a local player whose name normalizes to the empty string, with at
\* least one non-empty key in the index, is matched and not through the fuzzy
\* tier; if the empty string is no key, the containment tier gives it the
\* identifier of the first key.
C10_EmptyNameMatched ==
    Reconciling =>
      \A n \in Processed :
        (LocalName(n) = <<>> /\ \E k \in LookupKeys : k # <<>>) =>
          /\ via[n] \in {"exact", "containment"}
          /\ local_players[n].photoCode # NoCode
          /\ matches = 1
          /\ fuzzy_matches = 0
          /\ <<>> \notin LookupKeys =>
               /\ via[n] = "containment"
               /\ local_players[n].photoCode = fpl_lookup[1][2]

\* C10 witness: a player whose name "-" normalizes to the empty string was
\* given the identifier of the first of two keys by the containment tier.
C10_Witness ==
    /\ pc = "write"
    /\ \E n \in Processed :
         /\ core_file[n].name = sHyphen
         /\ via[n] = "containment"
         /\ Len(fpl_lookup) = 2
         /\ fpl_lookup[1][2] # fpl_lookup[2][2]
         /\ local_players[n].photoCode = fpl_lookup[1][2]

====
